---- MODULE Spec2Model ----
(***************************************************************************)
(* State machine of src/static/js/analyze.js: the page script that loads   *)
(* the environment catalog, manages the include / exclude input rows,      *)
(* fetches the selected object-graph snapshots in two batches and writes   *)
(* the APIs / Structs / Primitives listings into the page.                 *)
(*                                                                         *)
(* A JavaScript string is a sequence of one-character strings, so that     *)
(* replace, split, indexOf, join, length and the default sort order act on *)
(* characters as they do in the code.                                      *)
(***************************************************************************)
EXTENDS Integers, Sequences, FiniteSets, TLC

VARIABLES
  catalog,             \* the server's '/list' mapping (fixed for a page load)
  server,              \* retrieval path -> the snapshot JSON the server holds
  listBatch,           \* the loadData('/list') promise
  includeExcludeOpts,  \* the shared options store
  environments,        \* <option> values of the #environments datalist
  includeInputs,       \* values of the <input>s under #include-inputs
  excludeInputs,       \* values of the <input>s under #exclude-inputs
  runs,                \* one record per analyze() call made so far
  gate,                \* the inGraphs / exGraphs variables of each scope
  textContent          \* textContent of #apis, #structs and #primitives

vars == <<catalog, server, listBatch, includeExcludeOpts, environments,
          includeInputs, excludeInputs, runs, gate, textContent>>

(***************************************************************************)
(* Bounds of the model.                                                    *)
(***************************************************************************)
MaxRows == 1
MaxRuns == 2
MaxDepth == 2

(***************************************************************************)
(* Strings.                                                                *)
(***************************************************************************)
EmptyStr == <<>>
SPACE == " "
SLASH == "/"
DOT == "."
NEWLINE == "\n"

\* UTF-16 code unit of the characters the model uses.
Code(c) ==
  CASE c = "\n" -> 10
    [] c = " " -> 32
    [] c = "." -> 46
    [] c = "/" -> 47
    [] c = "a" -> 97
    [] c = "b" -> 98
    [] c = "c" -> 99
    [] c = "d" -> 100
    [] c = "e" -> 101
    [] c = "g" -> 103
    [] c = "h" -> 104
    [] c = "k" -> 107
    [] c = "l" -> 108
    [] c = "m" -> 109
    [] c = "n" -> 110
    [] c = "r" -> 114
    [] c = "s" -> 115
    [] c = "t" -> 116
    [] c = "u" -> 117
    [] c = "x" -> 120

\* s < t in the order of Array.prototype.sort() without a comparator:
\* code unit by code unit, a proper prefix first.
RECURSIVE StrLess(_, _)
StrLess(s, t) ==
  IF t = <<>> THEN FALSE
  ELSE IF s = <<>> THEN TRUE
  ELSE IF Head(s) = Head(t) THEN StrLess(Tail(s), Tail(t))
  ELSE Code(Head(s)) < Code(Head(t))

\* Array.prototype.sort() on an array of strings.
Sort(arr) == SortSeq(arr, StrLess)

\* Array.prototype.join(sep).
RECURSIVE Join(_, _)
Join(arr, sep) ==
  IF arr = <<>> THEN <<>>
  ELSE IF Len(arr) = 1 THEN arr[1]
  ELSE arr[1] \o <<sep>> \o Join(Tail(arr), sep)

\* String.prototype.split(sep) for a one-character separator.
RECURSIVE Split(_, _)
Split(s, sep) ==
  IF \A i \in 1..Len(s) : s[i] # sep THEN <<s>>
  ELSE LET i == CHOOSE k \in 1..Len(s) :
                  s[k] = sep /\ \A j \in 1..(k - 1) : s[j] # sep
       IN <<SubSeq(s, 1, i - 1)>> \o Split(SubSeq(s, i + 1, Len(s)), sep)

\* otherStruct.indexOf(struct) === 0
StartsWith(t, s) == Len(s) <= Len(t) /\ SubSeq(t, 1, Len(s)) = s

\* Array.prototype.concat over an array of arrays (the reduce of line 92).
RECURSIVE Concat(_)
Concat(arrs) == IF arrs = <<>> THEN <<>> ELSE Head(arrs) \o Concat(Tail(arrs))

Range(f) == {f[i] : i \in DOMAIN f}

(***************************************************************************)
(* Catalog Loader: getKeys and the loadData('/list') callback.             *)
(*                                                                         *)
(* A decoded JSON value is <<"leaf">> (anything that is not an object, or  *)
(* null) or <<"obj", props>>, props being the sequence of <<key, value>>   *)
(* pairs in Object.getOwnPropertyNames order, keys distinct.               *)
(***************************************************************************)
Leaf == <<"leaf">>
Obj(props) == <<"obj", props>>
IsObject(o) == o[1] = "obj"

\* The prefix for a child: s ? s + ' ' + key : key
ChildPrefix(s, key) == IF s # EmptyStr THEN s \o <<SPACE>> \o key ELSE key

RECURSIVE getKeys(_, _)
getKeys(o, s) ==
  IF ~IsObject(o) THEN <<s>>
  ELSE LET keys == o[2]
           RECURSIVE Loop(_, _)
           Loop(i, rtn) ==
             IF i > Len(keys) THEN rtn
             ELSE Loop(i + 1,
                       rtn \o getKeys(keys[i][2], ChildPrefix(s, keys[i][1])))
       IN Loop(1, <<>>)

\* addOpts(datalist): one <option> per entry of the options store, appended.
addOpts(datalist, opts) == datalist \o opts

\* The property names catalogs are built from; the empty name is a legal
\* JSON member name.
KeyNames == {<<>>, <<"a">>, <<"b">>}

\* Sequences of at most two <<key, value>> pairs with distinct keys.
PropLists(values) ==
  {<<>>}
    \cup {<< <<k, v>> >> : k \in KeyNames, v \in values}
    \cup {<< <<ks[1], v1>>, <<ks[2], v2>> >> :
            ks \in {p \in KeyNames \X KeyNames : p[1] # p[2]},
            v1 \in values, v2 \in values}

\* The decoded JSON values nested at most d deep.
RECURSIVE Catalogs(_)
Catalogs(d) ==
  IF d = 0 THEN {Leaf}
  ELSE {Leaf} \cup {Obj(p) : p \in PropLists(Catalogs(d - 1))}

\* stdlib.loadData('/list', ...).then(function(map) { ... })
ListLanded ==
  /\ listBatch = "pending"
  /\ listBatch' = "landed"
  /\ includeExcludeOpts' = getKeys(catalog, EmptyStr)
  /\ environments' = addOpts(environments, getKeys(catalog, EmptyStr))
  /\ UNCHANGED <<catalog, server, includeInputs, excludeInputs, runs, gate,
                 textContent>>

(***************************************************************************)
(* Object graphs (object-graph-js), as far as doAnalyses uses them.        *)
(*                                                                         *)
(* A graph is a record:                                                    *)
(*   root  the root id                                                     *)
(*   ids   getAllIds(), an array of ids                                    *)
(*   nan   the ids for which isNaN(id) holds                               *)
(*   fns   the ids for which isFunction(id) holds                          *)
(*   key   id -> getShortestKey(id)                                        *)
(*   data  id -> its own properties, an array of [key, type] records;      *)
(*         type tells whether the value the key resolves to is a           *)
(*         primitive type                                                  *)
(* The snapshots of one server name the same node by the same id, with the *)
(* same access path and the same own properties; they differ in the nodes  *)
(* they hold.                                                              *)
(***************************************************************************)
Ids == 1..6
Undefined == 0

isNaN(g, id) == id \in g.nan
getAllIds(g) == g.ids
isFunction(g, v) == v \in g.fns
getShortestKey(g, id) == g.key[id]
getObjectKeys(g, id) == [i \in 1..Len(g.data[id]) |-> g.data[id][i].key]

\* graph.lookup(key, id): the value the own property key of id resolves to.
lookupFrom(g, key, id) ==
  LET i == CHOOSE k \in 1..Len(g.data[id]) : g.data[id][k].key = key
  IN g.data[id][i]

isType(g, v) == v.type

\* graph.lookup(path): the id the access path resolves to from the root.
lookup(g, path) ==
  IF \E id \in Range(g.ids) : g.key[id] = path
  THEN CHOOSE id \in Range(g.ids) : g.key[id] = path
  ELSE Undefined

\* The result for an empty include list: no node at all, so that doAnalyses
\* leaves the three regions as it cleared them.
EmptyGraph ==
  [root |-> 1, ids |-> <<>>, nan |-> {}, fns |-> {},
   key |-> [id \in Ids |-> EmptyStr], data |-> [id \in Ids |-> <<>>]]

\* analysis.intersectDifference(inGraphs, exGraphs): the nodes of every
\* include graph that are in no exclude graph.
intersectDifference(inGraphs, exGraphs) ==
  IF inGraphs = <<>> THEN EmptyGraph
  ELSE [inGraphs[1] EXCEPT !.ids =
          SelectSeq(inGraphs[1].ids,
                    LAMBDA id :
                      /\ \A i \in 1..Len(inGraphs) : id \in Range(inGraphs[i].ids)
                      /\ \A i \in 1..Len(exGraphs) : id \notin Range(exGraphs[i].ids))]

\* ObjectGraph.fromJSON(data)
fromJSON(data) == data

\* getObjectGraphs(jsons)
getObjectGraphs(jsons) == [i \in 1..Len(jsons) |-> fromJSON(jsons[i])]

(***************************************************************************)
(* Analysis Engine: doAnalyses.                                            *)
(***************************************************************************)
\* The decimal digits of an id, for the default (string) order of sort().
Digits(n) == IF n < 10 THEN <<n>> ELSE <<n \div 10, n % 10>>

RECURSIVE DigitsLess(_, _)
DigitsLess(s, t) ==
  IF t = <<>> THEN FALSE
  ELSE IF s = <<>> THEN TRUE
  ELSE IF Head(s) = Head(t) THEN DigitsLess(Tail(s), Tail(t))
  ELSE Head(s) < Head(t)

\* var ids = graph.getAllIds().filter(id => !isNaN(id)).sort();
WellFormedIds(g) ==
  SortSeq(SelectSeq(getAllIds(g), LAMBDA id : ~isNaN(g, id)),
          LAMBDA a, b : DigitsLess(Digits(a), Digits(b)))

\* var apis = ids.filter(isFunction).map(getShortestKey).sort();
Apis(g) ==
  LET fs == SelectSeq(WellFormedIds(g), LAMBDA id : isFunction(g, id))
  IN Sort([i \in 1..Len(fs) |-> getShortestKey(g, fs[i])])

\* var allStructs = ids.filter(id !== root && !isFunction).map(...).sort();
AllStructs(g) ==
  LET ss == SelectSeq(WellFormedIds(g),
                      LAMBDA id : id # g.root /\ ~isFunction(g, id))
  IN Sort([i \in 1..Len(ss) |-> getShortestKey(g, ss[i])])

\* A leaf-struct filter that matches whole path segments only.
LeafStructsBySegment(allStructs) ==
  SelectSeq(allStructs,
            LAMBDA struct :
              ~\E i \in 1..Len(allStructs) :
                 StartsWith(allStructs[i], struct \o <<DOT>>))

\* var structs = Array.from(allStructs).filter(struct => !allStructs.some(
\*   otherStruct => otherStruct.length > struct.length &&
\*                  otherStruct.indexOf(struct) === 0));
LeafStructs(allStructs) ==
  SelectSeq(allStructs,
            LAMBDA struct :
              ~\E i \in 1..Len(allStructs) :
                 /\ Len(allStructs[i]) > Len(struct)
                 /\ StartsWith(allStructs[i], struct))

ReservedNames ==
  {<<"a", "r", "g", "u", "m", "e", "n", "t", "s">>,
   <<"c", "a", "l", "l", "e", "r">>,
   <<"l", "e", "n", "g", "t", "h">>,
   <<"n", "a", "m", "e">>}

\* The map of lines 81-91 for one id: prefix + '.' + key for every own key
\* whose value is a primitive type.
PrimitivesOf(g, id) ==
  LET prefix == getShortestKey(g, id)
      all == getObjectKeys(g, id)
      a == SelectSeq(all, LAMBDA key : isType(g, lookupFrom(g, key, id)))
  IN [i \in 1..Len(a) |-> prefix \o <<DOT>> \o a[i]]

\* The filter of lines 94-104 on one rendered entry.
KeepPrimitive(g, key) ==
  LET parts == Split(key, DOT)
      postfix == parts[Len(parts)]
      prefix == Join(SubSeq(parts, 1, Len(parts) - 1), DOT)
  IN \/ ~isFunction(g, lookup(g, prefix))
     \/ ~\E name \in ReservedNames : name = postfix

Primitives(g) ==
  LET ids == WellFormedIds(g)
      flat == Concat([i \in 1..Len(ids) |-> PrimitivesOf(g, ids[i])])
  IN Sort(SelectSeq(flat, LAMBDA key : KeepPrimitive(g, key)))

Cleared == [apis |-> EmptyStr, structs |-> EmptyStr, primitives |-> EmptyStr]

\* A doAnalyses that appends its listings to what the regions hold.
doAnalysesAppending(tc, inGraphs, exGraphs) ==
  LET graph == intersectDifference(inGraphs, exGraphs)
  IN [apis |-> tc.apis \o Join(Apis(graph), NEWLINE),
      structs |-> tc.structs \o Join(LeafStructs(AllStructs(graph)), NEWLINE),
      primitives |-> tc.primitives \o Join(Primitives(graph), NEWLINE)]

\* doAnalyses(inGraphs, exGraphs), the regions holding tc when it is called:
\* what the three regions hold when it returns.
doAnalyses(tc, inGraphs, exGraphs) ==
  LET cleared == [tc EXCEPT !.apis = EmptyStr, !.structs = EmptyStr,
                            !.primitives = EmptyStr]
      graph == intersectDifference(inGraphs, exGraphs)
  IN [cleared EXCEPT !.apis = Join(Apis(graph), NEWLINE),
                     !.structs = Join(LeafStructs(AllStructs(graph)), NEWLINE),
                     !.primitives = Join(Primitives(graph), NEWLINE)]

(***************************************************************************)
(* Dynamic Row Manager: addinputTo and the per-row remove handler.  A      *)
(* container is the sequence of its rows' input values, in DOM order.  The *)
(* user arranges the rows before the first analyze click; the rows then    *)
(* stay as arranged.                                                       *)
(***************************************************************************)
\* What the user types or picks in an input (free text is accepted).
OptValues == {EmptyStr, <<"x">>, <<"a", " ", "b", " ", "c">>}

\* container.appendChild(div): a new row, its input empty.
addinputTo(container) == Append(container, EmptyStr)

\* container.removeChild(div) for the i-th row.
removeChild(container, i) ==
  SubSeq(container, 1, i - 1) \o SubSeq(container, i + 1, Len(container))

AddInclude ==
  /\ runs = <<>>
  /\ Len(includeInputs) < MaxRows
  /\ includeInputs' = addinputTo(includeInputs)
  /\ UNCHANGED <<catalog, server, listBatch, includeExcludeOpts, environments,
                 excludeInputs, runs, gate, textContent>>

AddExclude ==
  /\ runs = <<>>
  /\ Len(excludeInputs) < MaxRows
  /\ excludeInputs' = addinputTo(excludeInputs)
  /\ UNCHANGED <<catalog, server, listBatch, includeExcludeOpts, environments,
                 includeInputs, runs, gate, textContent>>

RemoveInclude ==
  /\ runs = <<>>
  /\ \E i \in 1..Len(includeInputs) :
        includeInputs' = removeChild(includeInputs, i)
  /\ UNCHANGED <<catalog, server, listBatch, includeExcludeOpts, environments,
                 excludeInputs, runs, gate, textContent>>

RemoveExclude ==
  /\ runs = <<>>
  /\ \E i \in 1..Len(excludeInputs) :
        excludeInputs' = removeChild(excludeInputs, i)
  /\ UNCHANGED <<catalog, server, listBatch, includeExcludeOpts, environments,
                 includeInputs, runs, gate, textContent>>

\* The user edits the value of a row's input.
TypeInclude ==
  /\ runs = <<>>
  /\ \E i \in 1..Len(includeInputs), v \in OptValues :
        /\ v # includeInputs[i]
        /\ includeInputs' = [includeInputs EXCEPT ![i] = v]
  /\ UNCHANGED <<catalog, server, listBatch, includeExcludeOpts, environments,
                 excludeInputs, runs, gate, textContent>>

TypeExclude ==
  /\ runs = <<>>
  /\ \E i \in 1..Len(excludeInputs), v \in OptValues :
        /\ v # excludeInputs[i]
        /\ excludeInputs' = [excludeInputs EXCEPT ![i] = v]
  /\ UNCHANGED <<catalog, server, listBatch, includeExcludeOpts, environments,
                 includeInputs, runs, gate, textContent>>

(***************************************************************************)
(* Analyze Orchestrator: analyze, its continuation next and the two        *)
(* loadData callbacks.                                                     *)
(***************************************************************************)
DataPrefix == <<"/", "d", "a", "t", "a", "/">>

\* label.replace(/ /g, '/')
RECURSIVE ReplaceSpaces(_)
ReplaceSpaces(label) ==
  IF label = <<>> THEN <<>>
  ELSE <<IF Head(label) = SPACE THEN SLASH ELSE Head(label)>>
         \o ReplaceSpaces(Tail(label))

\* label.replace(' ', '/'): the first space only.
RECURSIVE ReplaceFirstSpace(_)
ReplaceFirstSpace(label) ==
  IF label = <<>> THEN <<>>
  ELSE IF Head(label) = SPACE THEN <<SLASH>> \o Tail(label)
  ELSE <<Head(label)>> \o ReplaceFirstSpace(Tail(label))

optValueToURLFirstSpace(label) == DataPrefix \o ReplaceFirstSpace(label)

optValueToURL(label) == DataPrefix \o ReplaceSpaces(label)

inputPaths(inputs) == [i \in 1..Len(inputs) |-> optValueToURL(inputs[i])]

\* The value of inGraphs / exGraphs: null, or an array of graphs.  by is the
\* analyze call whose code built the array.
NullGraphs == [set |-> FALSE, by |-> 0, graphs |-> <<>>]
GraphArray(a, graphs) == [set |-> TRUE, by |-> a, graphs |-> graphs]
Truthy(v) == v.set

\* An exGraphs that starts as [] whatever the exclude paths are.
InitialExGraphsEmpty(a, exPaths) == GraphArray(a, <<>>)

\* exGraphs = exPaths.length === 0 ? [] : null
InitialExGraphs(a, exPaths) ==
  IF Len(exPaths) = 0 THEN GraphArray(a, <<>>) ELSE NullGraphs

\* inGraphs and exGraphs as variables of the page, shared by every call.
ScopeShared(a) == 1

\* The scope holding the inGraphs and exGraphs of the a-th analyze call:
\* they are locals of analyze, so each call has its own.
Scope(a) == a

\* The test of next(): inGraphs && exGraphs
next(g) == Truthy(g.inGraphs) /\ Truthy(g.exGraphs)

\* The JSON the server answers a retrieval path with.
Fetch(path) ==
  IF path \in DOMAIN server THEN server[path] ELSE EmptyGraph

\* The record of an analyze call that has returned: the paths it computed,
\* the path lists it handed to stdlib.loadData (in call order), its two
\* promises, what the regions held when it was called, and what its
\* doAnalyses invocations were given and wrote.
Started(inPaths, exPaths, before) ==
  [inPaths |-> inPaths, exPaths |-> exPaths,
   loadData |-> <<inPaths, exPaths>>,
   inBatch |-> "pending", exBatch |-> "pending",
   before |-> before, calls |-> 0, args |-> {}, out |-> Cleared]

\* An analyze that empties the three regions when it is called.
RegionsClearedByAnalyze(tc) == Cleared

\* What analyze itself leaves in the three regions, which hold tc when it
\* is called: it does not write to them.
RegionsAfterAnalyze(tc) == tc

\* analyze(): the a-th click on #analyze.
Analyze ==
  /\ Len(runs) < MaxRuns
  /\ LET a == Len(runs) + 1
         inPaths == inputPaths(includeInputs)
         exPaths == inputPaths(excludeInputs)
     IN /\ gate' = [gate EXCEPT ![Scope(a)] =
                      [inGraphs |-> NullGraphs,
                       exGraphs |-> InitialExGraphs(a, exPaths)]]
        /\ runs' = Append(runs, Started(inPaths, exPaths, textContent))
  /\ textContent' = RegionsAfterAnalyze(textContent)
  /\ UNCHANGED <<catalog, server, listBatch, includeExcludeOpts, environments,
                 includeInputs, excludeInputs>>

\* next() of the a-th call, the gate of its scope being g: doAnalyses when
\* both variables are populated.
Continue(a, g, batch) ==
  /\ gate' = [gate EXCEPT ![Scope(a)] = g]
  /\ IF next(g)
     THEN LET tc == doAnalyses(textContent, g.inGraphs.graphs, g.exGraphs.graphs)
          IN /\ textContent' = tc
             /\ runs' = [runs EXCEPT
                           ![a][batch] = "landed",
                           ![a].calls = @ + 1,
                           ![a].args = @ \cup {<<g.inGraphs.by, g.exGraphs.by>>},
                           ![a].out = tc]
     ELSE /\ textContent' = textContent
          /\ runs' = [runs EXCEPT ![a][batch] = "landed"]

\* loadData(inPaths).then(function(jsons) { inGraphs = ...; next(); })
LandInclude(a) ==
  /\ runs[a].inBatch = "pending"
  /\ LET jsons == [i \in 1..Len(runs[a].inPaths) |-> Fetch(runs[a].inPaths[i])]
     IN Continue(a, [gate[Scope(a)] EXCEPT
                       !.inGraphs = GraphArray(a, getObjectGraphs(jsons))],
                 "inBatch")
  /\ UNCHANGED <<catalog, server, listBatch, includeExcludeOpts, environments,
                 includeInputs, excludeInputs>>

\* loadData(exPaths).then(function(jsons) { exGraphs = ...; next(); })
LandExclude(a) ==
  /\ runs[a].exBatch = "pending"
  /\ LET jsons == [i \in 1..Len(runs[a].exPaths) |-> Fetch(runs[a].exPaths[i])]
     IN Continue(a, [gate[Scope(a)] EXCEPT
                       !.exGraphs = GraphArray(a, getObjectGraphs(jsons))],
                 "exBatch")
  /\ UNCHANGED <<catalog, server, listBatch, includeExcludeOpts, environments,
                 includeInputs, excludeInputs>>

\* The include promise rejects (a network or decode failure): no handler is
\* attached, so nothing runs.
RejectInclude(a) ==
  /\ runs[a].inBatch = "pending"
  /\ runs' = [runs EXCEPT ![a].inBatch = "failed"]
  /\ UNCHANGED <<catalog, server, listBatch, includeExcludeOpts, environments,
                 includeInputs, excludeInputs, gate, textContent>>

RejectExclude(a) ==
  /\ runs[a].exBatch = "pending"
  /\ runs' = [runs EXCEPT ![a].exBatch = "failed"]
  /\ UNCHANGED <<catalog, server, listBatch, includeExcludeOpts, environments,
                 includeInputs, excludeInputs, gate, textContent>>

(***************************************************************************)
(* The snapshots a server holds.  Every snapshot draws its nodes from six  *)
(* ids with fixed access paths: 1 is the root, 2 "a", 3 "a.b", 4 "a.b.c",  *)
(* 5 "x", 6 "ab".                                                          *)
(***************************************************************************)
LENGTH == <<"l", "e", "n", "g", "t", "h">>
NAME == <<"n", "a", "m", "e">>
KeyOf ==
  [id \in Ids |->
     CASE id = 1 -> EmptyStr
       [] id = 2 -> <<"a">>
       [] id = 3 -> <<"a", ".", "b">>
       [] id = 4 -> <<"a", ".", "b", ".", "c">>
       [] id = 5 -> <<"x">>
       [] id = 6 -> <<"a", "b">>]

IdsOf(S) == SelectSeq(<<1, 2, 3, 4, 5, 6>>, LAMBDA i : i \in S)
NoData == [id \in Ids |-> <<>>]
Prop(key, type) == [key |-> key, type |-> type]

MkGraph(present, nan, fns, data) ==
  [root |-> 1, ids |-> IdsOf(present), nan |-> nan, fns |-> fns,
   key |-> KeyOf, data |-> data]

\* The site of the main specification: x is a function with the fields
\* length and k, a has the field k and the child b.
SiteProps ==
  [NoData EXCEPT ![2] = <<Prop(<<"k">>, TRUE), Prop(<<"b">>, FALSE)>>,
                 ![5] = <<Prop(LENGTH, TRUE), Prop(<<"k">>, TRUE)>>]
SiteData ==
  (optValueToURL(<<"x">>) :> MkGraph({1, 2, 3, 5}, {}, {5}, SiteProps))
    @@ (optValueToURL(<<"a", " ", "b", " ", "c">>)
          :> MkGraph({1, 2, 5, 6}, {}, {5}, SiteProps))
    @@ (optValueToURL(EmptyStr) :> MkGraph({1, 6}, {}, {5}, SiteProps))
SiteCatalog ==
  Obj(<< <<<<"x">>, Leaf>>,
         <<<<"a">>, Obj(<< <<<<"b">>, Obj(<< <<<<"c">>, Leaf>> >>)>> >>)>> >>)

\* Snapshots for the struct listing: each of the nodes 2..6 is absent, an
\* object or a function, and the id of node 6 may be malformed.
NodeKinds == {"absent", "obj", "fn"}
StructGraphs ==
  {MkGraph({1} \cup {i \in 2..6 : f[i] # "absent"},
           IF n /\ f[6] # "absent" THEN {6} ELSE {},
           {i \in 2..6 : f[i] = "fn"}, NoData) :
     f \in [2..6 -> NodeKinds], n \in BOOLEAN}

\* Snapshots for the primitive listing: node 2 ("a") is an object or a
\* function, its child node 3 ("a.b") is absent, an object or a function,
\* and each has some of the primitive-valued own keys below; "b.length" is
\* an own key of node 2 whose name contains a dot.
KeysOfA == <<<<"b", ".", "l", "e", "n", "g", "t", "h">>, <<"k">>, LENGTH>>
KeysOfB == <<<<"k">>, LENGTH, NAME>>
Props(order, chosen) ==
  LET ks == SelectSeq(order, LAMBDA k : k \in chosen)
  IN [i \in 1..Len(ks) |-> Prop(ks[i], TRUE)]
PrimGraphs ==
  {MkGraph({1, 2} \cup (IF b = "absent" THEN {} ELSE {3}), {},
           (IF a = "fn" THEN {2} ELSE {}) \cup (IF b = "fn" THEN {3} ELSE {}),
           [NoData EXCEPT
              ![2] = Props(KeysOfA, ka)
                       \o (IF b = "absent" THEN <<>>
                           ELSE <<Prop(<<"b">>, FALSE)>>),
              ![3] = IF b = "absent" THEN <<>> ELSE Props(KeysOfB, kb)]) :
     a \in {"obj", "fn"}, b \in NodeKinds,
     ka \in SUBSET Range(KeysOfA), kb \in SUBSET Range(KeysOfB)}

(***************************************************************************)
(* Specifications.                                                         *)
(***************************************************************************)
NoGate == [inGraphs |-> NullGraphs, exGraphs |-> NullGraphs]

\* The page once the script has run: the '/list' request is out, the
\* containers and the regions are empty.
Loaded ==
  /\ listBatch = "pending"
  /\ includeExcludeOpts = <<>>
  /\ environments = <<>>
  /\ includeInputs = <<>>
  /\ excludeInputs = <<>>
  /\ runs = <<>>
  /\ gate = [s \in 1..MaxRuns |-> NoGate]
  /\ textContent = Cleared

Init ==
  /\ catalog = SiteCatalog
  /\ server = SiteData
  /\ Loaded

Next ==
  \/ ListLanded
  \/ AddInclude
  \/ AddExclude
  \/ RemoveInclude
  \/ RemoveExclude
  \/ TypeInclude
  \/ TypeExclude
  \/ Analyze
  \/ \E a \in 1..Len(runs) : LandInclude(a)
  \/ \E a \in 1..Len(runs) : LandExclude(a)
  \/ \E a \in 1..Len(runs) : RejectInclude(a)
  \/ \E a \in 1..Len(runs) : RejectExclude(a)

Spec == Init /\ [][Next]_vars

\* The catalog loader alone, over every catalog nested at most MaxDepth deep.
InitKeys ==
  /\ catalog \in Catalogs(MaxDepth)
  /\ server = SiteData
  /\ Loaded

NextKeys == ListLanded

SpecKeys == InitKeys /\ [][NextKeys]_vars

\* doAnalyses alone: one include row "x", no exclude row, the analyze call
\* made and its two promises outstanding, over every snapshot of
\* StructGraphs and PrimGraphs for the row's path.
InitAnalyses ==
  /\ catalog = SiteCatalog
  /\ server \in {optValueToURL(<<"x">>) :> g : g \in StructGraphs \cup PrimGraphs}
  /\ listBatch = "pending"
  /\ includeExcludeOpts = <<>>
  /\ environments = <<>>
  /\ includeInputs = <<<<"x">>>>
  /\ excludeInputs = <<>>
  /\ runs = <<Started(inputPaths(includeInputs), inputPaths(excludeInputs),
                      Cleared)>>
  /\ gate = [s \in 1..MaxRuns |->
               IF s = Scope(1)
               THEN [inGraphs |-> NullGraphs,
                     exGraphs |-> InitialExGraphs(1, inputPaths(excludeInputs))]
               ELSE NoGate]
  /\ textContent = Cleared

NextAnalyses ==
  \/ \E a \in 1..Len(runs) : LandInclude(a)
  \/ \E a \in 1..Len(runs) : LandExclude(a)

SpecAnalyses == InitAnalyses /\ [][NextAnalyses]_vars

(***************************************************************************)
(* Properties.                                                             *)
(***************************************************************************)
Fired == 1..Len(runs)
Invoked(a) == runs[a].calls > 0
NoExcludeRows(a) == runs[a].exPaths = <<>>

\* The lines of a region: the inverse of join('\n').
Lines(text) == IF text = <<>> THEN <<>> ELSE Split(text, NEWLINE)

\* The graph the doAnalyses invocations of the a-th call work on.
ResultOf(a) ==
  intersectDifference(
    [i \in 1..Len(runs[a].inPaths) |-> Fetch(runs[a].inPaths[i])],
    [i \in 1..Len(runs[a].exPaths) |-> Fetch(runs[a].exPaths[i])])

\* s comes before t, or is t, in code-unit order.
LexLeq(s, t) ==
  \/ s = t
  \/ \E k \in 1..(Len(t)) :
       /\ \A j \in 1..(k - 1) : j <= Len(s) /\ s[j] = t[j]
       /\ \/ Len(s) = k - 1
          \/ Len(s) >= k /\ Code(s[k]) < Code(t[k])

Sorted(lines) ==
  \A i \in 1..Len(lines), j \in 1..Len(lines) :
    i < j => LexLeq(lines[i], lines[j])

\* C1: for an analyze call whose include batch and exclude batch have both
\* completed, doAnalyses has been invoked exactly once, whichever batch
\* completed first and however many exclude rows there were, zero included.
C1_ExactlyOnce ==
  \A a \in Fired :
    runs[a].inBatch = "landed" /\ runs[a].exBatch = "landed"
      => runs[a].calls = 1

\* C2: doAnalyses has been invoked for an analyze call only if that call's
\* include batch has completed and its exclude batch has completed or its
\* exclude-path list was empty; a call one of whose batches has not
\* completed has not invoked it.
C2_OnlyWhenBothComplete ==
  \A a \in Fired :
    Invoked(a) =>
      /\ runs[a].inBatch = "landed"
      /\ runs[a].exBatch = "landed" \/ NoExcludeRows(a)

\* C2 witness: one call has invoked doAnalyses with exclude rows present,
\* another has its include batch landed and its exclude batch rejected and
\* has not invoked it.
C2_Witness ==
  \E a \in Fired, b \in Fired :
    /\ Invoked(a) /\ ~NoExcludeRows(a)
    /\ runs[b].inBatch = "landed" /\ runs[b].exBatch = "failed"
    /\ ~NoExcludeRows(b) /\ ~Invoked(b)

\* C3: an analyze call with zero exclude rows has an empty array as its
\* exGraphs and has handed stdlib.loadData the include paths only: no
\* loadData call is made for the exclude side.
C3_NoExcludeRetrieval ==
  \A a \in Fired :
    NoExcludeRows(a) =>
      /\ Truthy(gate[Scope(a)].exGraphs)
      /\ gate[Scope(a)].exGraphs.graphs = <<>>
      /\ runs[a].loadData = <<runs[a].inPaths>>

\* The key paths of the leaf values of o, depth first, keys in enumeration
\* order; path is the list of keys that leads to o.
RECURSIVE LeafPaths(_, _)
LeafPaths(o, path) ==
  IF ~IsObject(o) THEN <<path>>
  ELSE Concat([i \in 1..Len(o[2]) |->
                 LeafPaths(o[2][i][2], Append(path, o[2][i][1]))])

\* C4: once the catalog has landed, the options store holds exactly one
\* entry per leaf value of the catalog, each the leaf's full key path with
\* its segments joined by single spaces, in depth-first order.
C4_FlattenedCatalog ==
  listBatch = "landed" =>
    LET paths == LeafPaths(catalog, <<>>)
    IN includeExcludeOpts = [i \in 1..Len(paths) |-> Join(paths[i], SPACE)]

\* The struct paths of a graph: the access paths of its well-formed ids
\* that are neither the root nor functions.
StructPaths(g) ==
  {g.key[id] : id \in {i \in Range(g.ids) : i \notin g.nan /\ i # g.root
                                               /\ i \notin g.fns}}

\* t is strictly longer than s and starts with the characters of s.
RawExtension(t, s) ==
  Len(t) > Len(s) /\ \A i \in 1..Len(s) : t[i] = s[i]

ExamplePaths ==
  {<<"a">>, <<"a", ".", "b">>, <<"a", ".", "b", ".", "c">>, <<"x">>}

\* C5: the #structs region written by doAnalyses lists a struct path s if and
\* only if no other struct path of the run is strictly longer than s and
\* starts with s as a raw string; the list is in lexicographic order; for the
\* struct paths "a", "a.b", "a.b.c", "x" it is "a.b.c", "x".
C5_LeafStructs ==
  \A a \in Fired :
    Invoked(a) =>
      LET paths == StructPaths(ResultOf(a))
          lines == Lines(runs[a].out.structs)
      IN /\ Range(lines) =
              {s \in paths : ~\E t \in paths : RawExtension(t, s)}
         /\ Sorted(lines)
         /\ paths = ExamplePaths =>
              lines = <<<<"a", ".", "b", ".", "c">>, <<"x">>>>

\* C5 witness: doAnalyses has run on the struct paths "a", "a.b", "a.b.c", "x".
C5_WitnessExample ==
  \E a \in Fired : Invoked(a) /\ StructPaths(ResultOf(a)) = ExamplePaths

\* C6: the #primitives region written by doAnalyses lists the entry
\* "<shortest path of id>.<key>" of an id and a primitive-valued own key of
\* it unless the id is a function and the key is one of "arguments",
\* "caller", "length", "name", and then it does not list it; this for every
\* key, with or without a '.' in it.
C6_ReservedOnlyOfFunctions ==
  \A a \in Fired :
    Invoked(a) =>
      LET g == ResultOf(a)
          lines == Lines(runs[a].out.primitives)
      IN \A id \in {i \in Range(g.ids) : i \notin g.nan} :
           \A p \in {q \in Range(g.data[id]) : q.type} :
             (g.key[id] \o <<DOT>> \o p.key \in Range(lines))
               <=> ~(id \in g.fns /\ p.key \in ReservedNames)

\* The retrieval paths of a container: as many as the rows, in row order,
\* the i-th being '/data/' and then the row's value with '/' in the place of
\* every space.
PathsOfRows(paths, rows) ==
  /\ Len(paths) = Len(rows)
  /\ \A i \in 1..Len(rows) :
       /\ Len(paths[i]) = Len(DataPrefix) + Len(rows[i])
       /\ SubSeq(paths[i], 1, Len(DataPrefix)) = DataPrefix
       /\ \A j \in 1..Len(rows[i]) :
            paths[i][Len(DataPrefix) + j] =
              IF rows[i][j] = " " THEN "/" ELSE rows[i][j]
       /\ rows[i] = <<>> => paths[i] = DataPrefix

Hung(a) ==
  \/ runs[a].inBatch = "failed"
  \/ runs[a].exBatch = "failed" /\ ~NoExcludeRows(a)

\* C8 as claimed: once a retrieval batch of an analyze call has failed for
\* good, the call has not invoked doAnalyses and the three regions are empty.
C8_HungLeavesCleared ==
  \A a \in Fired : Hung(a) => ~Invoked(a) /\ textContent = Cleared

\* C8 as amended: a call whose include batch has not completed, or whose
\* exclude batch has not completed while its exclude-path list is non-empty,
\* has not invoked doAnalyses, and no step but an invocation of doAnalyses
\* (by a call whose batches have completed) changes the three regions: the
\* analyze call does not clear them, they keep what they held.
C8_HungLeavesRegions ==
  [][/\ \A a \in 1..Len(runs') :
          (\/ runs'[a].inBatch # "landed"
           \/ runs'[a].exBatch # "landed" /\ runs'[a].exPaths # <<>>)
            => runs'[a].calls = 0
     /\ textContent' # textContent =>
          \E a \in Fired :
            /\ runs'[a].calls = runs[a].calls + 1
            /\ runs'[a].inBatch = "landed"
            /\ runs'[a].exBatch = "landed" \/ runs'[a].exPaths = <<>>]_vars

\* C8 witness: a call made while the regions showed the lists of an earlier
\* run has a failed batch, and the regions still show those lists.
C8_Witness ==
  \E a \in Fired :
    /\ Hung(a)
    /\ runs[a].before # Cleared
    /\ textContent = runs[a].before

\* C9: two analyze calls with the same row values (the snapshots of the
\* server do not change) that have both written their output have written
\* the same three listings.
C9_Idempotent ==
  \A a \in Fired, b \in Fired :
    /\ Invoked(a) /\ Invoked(b)
    /\ runs[a].inPaths = runs[b].inPaths
    /\ runs[a].exPaths = runs[b].exPaths
    => runs[a].out = runs[b].out

\* C9 witness: the second call was made when the first had written a
\* non-empty output, both have completed, and the regions hold the second
\* call's output.
C9_Witness ==
  \E a \in Fired, b \in Fired :
    /\ a < b
    /\ Invoked(a) /\ Invoked(b)
    /\ runs[b].before = runs[a].out
    /\ runs[a].out.apis # EmptyStr
    /\ runs[a].out.structs # EmptyStr
    /\ runs[a].out.primitives # EmptyStr
    /\ runs[b].exBatch = "landed" /\ ~NoExcludeRows(b)
    /\ textContent = runs[b].out

\* C10: every doAnalyses invocation of an analyze call was given an include
\* list and an exclude list that this same call built, and the call has
\* invoked doAnalyses exactly when its own include batch has landed and its
\* own exclude batch has landed or its exclude-path list was empty, whatever
\* the other calls' batches did.
C10_OwnGate ==
  \A a \in Fired :
    /\ \A p \in runs[a].args : p = <<a, a>>
    /\ Invoked(a) <=>
         /\ runs[a].inBatch = "landed"
         /\ runs[a].exBatch = "landed" \/ NoExcludeRows(a)

\* C10 witness: two calls overlap, with exclude rows: the second has invoked
\* doAnalyses while both batches of the first are still outstanding.
C10_Witness ==
  /\ Len(runs) >= 2
  /\ runs[1].inBatch = "pending" /\ runs[1].exBatch = "pending"
  /\ ~NoExcludeRows(2)
  /\ Invoked(2)
  /\ runs[2].args = {<<2, 2>>}
====
